---- MODULE Spec2Model ----
(***************************************************************************)
(* RTCP compound packets of str0m (rtp/src/rtcp/mod.rs): RtcpFb::pack,     *)
(* RtcpFb::write_packet and RtcpFb::read_packet as a state machine over a  *)
(* compound queue, an output buffer of bytes and an input buffer of bytes. *)
(* The sub-modules header, list, sr, rr, sdes and bb are not part of the   *)
(* source at hand; their operators follow the design document.             *)
(***************************************************************************)
EXTENDS Integers, Sequences, FiniteSets, TLC

VARIABLES
    overflow_checks, \* build profile: TRUE = arithmetic overflow panics, FALSE = wraps
    feedback,        \* the compound queue (VecDeque<RtcpFb>)
    buf,             \* the output buffer of write_packet: its bytes up to the last one written
    buf_len,         \* the output buffer of write_packet: buf.len()
    pad_to,          \* write_packet's pad_to argument
    pc,              \* position of the running call
    op,              \* the call the caller made: "none", "pack", "write", "read"
    i,               \* pack: index of the anchor
    word_capacity,   \* pack: remaining capacity in words
    total_len,       \* write_packet: usable bytes
    offset,          \* write_packet: bytes written
    offset_prev,     \* write_packet: start of the last sub-packet written
    rbuf,            \* read_packet: the remaining input slice
    parsed,          \* read_packet: the result queue
    ret,             \* return value of the last write_packet
    h                \* history of the running call, read by the properties only

vars == << overflow_checks, feedback, buf, buf_len, pad_to, pc, op, i, word_capacity,
           total_len, offset, offset_prev, rbuf, parsed, ret, h >>

----------------------------------------------------------------------------
(* Bounds of the model *)

\* longest queue drawn from the mixed packet shapes
MaxQueue == 3
\* longest queue of single-report receiver reports
MaxRR == 32
\* calls the caller makes on one queue
MaxCalls == 2
\* longest arbitrary input buffer of read_packet, in words
MaxWords == 3

----------------------------------------------------------------------------
(* Integer widths *)

\* usize arithmetic wraps modulo USIZE.  The model checker's integers have 32
\* bits, so the model's usize has 30; every length of the model is far below.
USIZE == 1073741824
U16 == 65536
U8 == 256

\* ReportList's cap: the count field of the header has 5 bits
MAX_REPORTS == 31

BE16(n) == << (n \div 256) % 256, n % 256 >>
BE32(n) == << (n \div 16777216) % 256, (n \div 65536) % 256, (n \div 256) % 256, n % 256 >>
FromBE16(s, k) == s[k] * 256 + s[k + 1]
\* An Ssrc is kept as its 4 bytes: 2^32 exceeds the model checker's integers
Ssrc(n) == BE32(n)
ssrc_read(s, k) == SubSeq(s, k, k + 3)

\* &s[from..] and &s[..to] with 0-based byte positions
SliceFrom(s, from) == SubSeq(s, from + 1, Len(s))
SliceTo(s, to) == SubSeq(s, 1, to)
Fill(n, b) == [k \in 1..n |-> b]

\* what a byte of the output buffer that was never written holds
FILL == 170

\* The output buffer is kept as its bytes up to the last one written; the
\* bytes after them are untouched.  b with bytes written at byte position
\* off (0-based):
put(b, off, bytes) ==
    IF off > Len(b) THEN b \o Fill(off - Len(b), FILL) \o bytes
    ELSE SubSeq(b, 1, off) \o bytes \o SubSeq(b, off + Len(bytes) + 1, Len(b))

\* the first n bytes of the output buffer
truncate(b, n) ==
    IF n <= Len(b) THEN SubSeq(b, 1, n) ELSE b \o Fill(n - Len(b), FILL)

----------------------------------------------------------------------------
(* list: ReportList<T> of word-sized items.  An item is [id, ws]. *)

word_size(item) == item.ws

RECURSIVE list_words(_)
list_words(l) == IF l = << >> THEN 0 ELSE word_size(Head(l)) + list_words(Tail(l))

list_is_full(l) == Len(l) >= MAX_REPORTS
list_is_empty(l) == Len(l) = 0

\* Moves items from the front of other to the end of self until self is full,
\* other is exhausted or the next item exceeds the word budget.
RECURSIVE append_all_possible(_, _, _)
append_all_possible(self, other, words_left) ==
    IF list_is_full(self) \/ other = << >> \/ word_size(Head(other)) > words_left
    THEN [self |-> self, other |-> other, n |-> 0]
    ELSE LET r == append_all_possible(Append(self, Head(other)), Tail(other),
                                      words_left - word_size(Head(other)))
         IN  [r EXCEPT !.n = r.n + 1]

----------------------------------------------------------------------------
(* Packet variants.  A packet is [kind, ssrc, reports]; ssrc stands for the *)
(* SenderInfo of a sender report and is NoSsrc for the other kinds.        *)

Kinds == {"SR", "RR", "SDES", "BYE"}

\* the ssrc field of a packet that has no SenderInfo
NoSsrc == << >>

\* words of the fixed payload: the SenderInfo of a sender report
fixed_words(kind) == IF kind = "SR" THEN 6 ELSE 0

length_words(fb) == 1 + fixed_words(fb.kind) + list_words(fb.reports)

is_full(fb) == list_is_full(fb.reports)

is_empty(fb) == IF fb.kind = "SR" THEN FALSE ELSE list_is_empty(fb.reports)

\* merge without the arm that stacks receiver reports
merge_no_rr_rr(self, other, words_left) ==
    IF \/ self.kind = "SR" /\ other.kind = "RR"
       \/ self.kind = "SDES" /\ other.kind = "SDES"
       \/ self.kind = "BYE" /\ other.kind = "BYE"
    THEN LET r == append_all_possible(self.reports, other.reports, words_left)
         IN  [self |-> [self EXCEPT !.reports = r.self],
              other |-> [other EXCEPT !.reports = r.other],
              did |-> r.n > 0]
    ELSE [self |-> self, other |-> other, did |-> FALSE]

\* merge that moves the whole list of other, whatever self holds
merge_unbounded(self, other, words_left) ==
    IF \/ self.kind = "SR" /\ other.kind = "RR"
       \/ self.kind = "RR" /\ other.kind = "RR"
       \/ self.kind = "SDES" /\ other.kind = "SDES"
       \/ self.kind = "BYE" /\ other.kind = "BYE"
    THEN [self |-> [self EXCEPT !.reports = self.reports \o other.reports],
          other |-> [other EXCEPT !.reports = << >>],
          did |-> other.reports # << >>]
    ELSE [self |-> self, other |-> other, did |-> FALSE]

\* merge that copies the items into self and leaves them in other too
merge_copying(self, other, words_left) ==
    IF \/ self.kind = "SR" /\ other.kind = "RR"
       \/ self.kind = "RR" /\ other.kind = "RR"
       \/ self.kind = "SDES" /\ other.kind = "SDES"
       \/ self.kind = "BYE" /\ other.kind = "BYE"
    THEN LET r == append_all_possible(self.reports, other.reports, words_left)
         IN  [self |-> [self EXCEPT !.reports = r.self], other |-> other, did |-> r.n > 0]
    ELSE [self |-> self, other |-> other, did |-> FALSE]

\* merge with one more arm: a receiver report takes the reports of a sender report
merge_rr_sr(self, other, words_left) ==
    IF \/ self.kind = "SR" /\ other.kind = "RR"
       \/ self.kind = "RR" /\ other.kind = "RR"
       \/ self.kind = "RR" /\ other.kind = "SR"
       \/ self.kind = "SDES" /\ other.kind = "SDES"
       \/ self.kind = "BYE" /\ other.kind = "BYE"
    THEN LET r == append_all_possible(self.reports, other.reports, words_left)
         IN  [self |-> [self EXCEPT !.reports = r.self],
              other |-> [other EXCEPT !.reports = r.other],
              did |-> r.n > 0]
    ELSE [self |-> self, other |-> other, did |-> FALSE]

\* merge(self, other, words_left): the pair after the call and its result
merge(self, other, words_left) ==
    IF \/ self.kind = "SR" /\ other.kind = "RR"
       \/ self.kind = "RR" /\ other.kind = "RR"
       \/ self.kind = "SDES" /\ other.kind = "SDES"
       \/ self.kind = "BYE" /\ other.kind = "BYE"
    THEN LET r == append_all_possible(self.reports, other.reports, words_left)
         IN  [self |-> [self EXCEPT !.reports = r.self],
              other |-> [other EXCEPT !.reports = r.other],
              did |-> r.n > 0]
    ELSE [self |-> self, other |-> other, did |-> FALSE]

----------------------------------------------------------------------------
(* header: the fixed 4-byte RTCP header *)

SR_TYPE == 200
RR_TYPE == 201
SDES_TYPE == 202
BYE_TYPE == 203
XR_TYPE == 207

type_code(kind) ==
    CASE kind = "SR" -> SR_TYPE
      [] kind = "RR" -> RR_TYPE
      [] kind = "SDES" -> SDES_TYPE
      [] kind = "BYE" -> BYE_TYPE

kind_of(code) ==
    CASE code = SR_TYPE -> "SR"
      [] code = RR_TYPE -> "RR"
      [] code = SDES_TYPE -> "SDES"
      [] code = BYE_TYPE -> "BYE"
      [] OTHER -> "unsupported"

\* RtcpHeader of a packet: version 2, no padding, the count, the type and
\* the length in words less one
header(fb) ==
    [count |-> Len(fb.reports) % 32, type |-> type_code(fb.kind),
     words_less_one |-> (length_words(fb) - 1) % U16]

header_write(hd) == << 128 + hd.count, hd.type >> \o BE16(hd.words_less_one)

\* TryFrom<&[u8]> for RtcpHeader: fewer than 4 bytes, a version other than 2
\* or an unknown packet type is an error
header_parse(b) ==
    IF Len(b) < 4 \/ b[1] \div 64 # 2 \/ b[2] < SR_TYPE \/ b[2] > XR_TYPE
    THEN [ok |-> FALSE]
    ELSE [ok |-> TRUE, count |-> b[1] % 32, type |-> b[2],
          words_less_one |-> FromBE16(b, 3)]

\* RtcpHeader::length_words: the length of the whole packet in words
header_length_words(hd) == hd.words_less_one + 1

----------------------------------------------------------------------------
(* Payload codecs: sr, rr, sdes, bb *)

\* Pad up to the next word (4 byte) boundary.
pad_bytes_to_word(n) ==
    LET pad == 4 - (n % 4) IN IF pad = 4 THEN n ELSE n + pad

\* SenderInfo: ssrc, ntp_time (2 words), rtp_time, packet and octet count
sender_info_write(ssrc) ==
    ssrc \o Fill(8, 0) \o BE32(4) \o BE32(5) \o BE32(6)

\* ReceptionReport: ssrc, fraction_lost, packets_lost (24 bit), max_seq,
\* jitter, last_sr_time, last_sr_delay
reception_report_write(item) ==
    item.id \o << 3, 0, 4, 210 >> \o BE32(4000) \o BE32(5) \o BE32(12) \o BE32(1)

\* Sdes chunk: ssrc, one text item (type, length, text), the 0 terminator
sdes_write(item) ==
    LET n == 4 * (item.ws - 1) - 3
    IN  item.id \o << 1, n >> \o Fill(n, 120) \o << 0 >>

item_write(kind, item) ==
    CASE kind \in {"SR", "RR"} -> reception_report_write(item)
      [] kind = "SDES" -> sdes_write(item)
      [] kind = "BYE" -> item.id

RECURSIVE reports_write(_, _)
reports_write(kind, l) ==
    IF l = << >> THEN << >> ELSE item_write(kind, Head(l)) \o reports_write(kind, Tail(l))

\* RtcpPacket::write_to: the bytes of the packet, length_words * 4 of them
write_to(fb) ==
    header_write(header(fb))
        \o (IF fb.kind = "SR" THEN sender_info_write(fb.ssrc) ELSE << >>)
        \o reports_write(fb.kind, fb.reports)

\* Reception reports until the buffer is exhausted or the list is full
RECURSIVE reception_reports_parse(_, _)
reception_reports_parse(b, acc) ==
    IF b = << >> \/ list_is_full(acc) THEN [ok |-> TRUE, reports |-> acc]
    ELSE IF Len(b) < 24 THEN [ok |-> FALSE]
    ELSE reception_reports_parse(SliceFrom(b, 24),
                                 Append(acc, [id |-> ssrc_read(b, 1), ws |-> 6]))

\* The end of the items of an Sdes chunk that start at byte p (0-based), as
\* a byte count from the start of the chunk; -1 if the terminator is missing
RECURSIVE sdes_items_end(_, _)
sdes_items_end(b, p) ==
    IF p >= Len(b) THEN -1
    ELSE IF b[p + 1] = 0 THEN pad_bytes_to_word(p + 1)
    ELSE IF p + 1 >= Len(b) THEN -1
    ELSE sdes_items_end(b, p + 2 + b[p + 2])

RECURSIVE sdes_parse(_, _)
sdes_parse(b, acc) ==
    IF b = << >> \/ list_is_full(acc) THEN [ok |-> TRUE, reports |-> acc]
    ELSE IF Len(b) < 4 THEN [ok |-> FALSE]
    ELSE LET e == sdes_items_end(b, 4)
         IN  IF e < 0 \/ e > Len(b) THEN [ok |-> FALSE]
             ELSE sdes_parse(SliceFrom(b, e),
                             Append(acc, [id |-> ssrc_read(b, 1), ws |-> e \div 4]))

\* Goodbye from (count, buf): count SSRCs of one word each
goodbye_parse(count, b) ==
    IF Len(b) < 4 * count THEN [ok |-> FALSE]
    ELSE [ok |-> TRUE,
          reports |-> [k \in 1..count |-> [id |-> ssrc_read(b, 4 * (k - 1) + 1), ws |-> 1]]]

----------------------------------------------------------------------------
(* TryFrom<&[u8]> for RtcpFb: one sub-packet, padding already removed *)

try_from(b) ==
    LET hd == header_parse(b) IN
    IF ~hd.ok THEN [ok |-> FALSE]
    ELSE LET body == SliceFrom(b, 4)
             kind == kind_of(hd.type)
         IN  CASE kind = "SR" ->
                    IF Len(body) < 24 THEN [ok |-> FALSE]
                    ELSE LET r == reception_reports_parse(SliceFrom(body, 24), << >>)
                         IN  IF r.ok
                             THEN [ok |-> TRUE,
                                   fb |-> [kind |-> "SR", ssrc |-> ssrc_read(body, 1),
                                           reports |-> r.reports]]
                             ELSE [ok |-> FALSE]
               [] kind = "RR" ->
                    LET r == reception_reports_parse(body, << >>)
                    IN  IF r.ok
                        THEN [ok |-> TRUE,
                              fb |-> [kind |-> "RR", ssrc |-> NoSsrc, reports |-> r.reports]]
                        ELSE [ok |-> FALSE]
               [] kind = "SDES" ->
                    LET r == sdes_parse(body, << >>)
                    IN  IF r.ok
                        THEN [ok |-> TRUE,
                              fb |-> [kind |-> "SDES", ssrc |-> NoSsrc, reports |-> r.reports]]
                        ELSE [ok |-> FALSE]
               [] kind = "BYE" ->
                    LET r == goodbye_parse(hd.count, body)
                    IN  IF r.ok
                        THEN [ok |-> TRUE,
                              fb |-> [kind |-> "BYE", ssrc |-> NoSsrc, reports |-> r.reports]]
                        ELSE [ok |-> FALSE]
               \* ApplicationDefined, the feedback types and ExtendedReport
               [] OTHER -> [ok |-> FALSE]

----------------------------------------------------------------------------
(* RtcpFb::pack *)

\* The inner loop `for j in i + 1..len` from index j on (indexes are 0-based):
\* the queue after it, any_change, and whether it left by `break 'outer`.
\* fb_a is taken through a raw pointer while feedback[j] is borrowed; a and j
\* never name the same element, so every build reads and writes q[a] and
\* q[j] as two separate packets.
RECURSIVE pack_scan(_, _, _, _, _)
pack_scan(q, a, j, cap, any_change) ==
    IF j >= Len(q) THEN [q |-> q, any_change |-> any_change, abort |-> FALSE]
    ELSE IF is_full(q[a + 1]) \/ is_empty(q[a + 1])
    THEN [q |-> q, any_change |-> any_change, abort |-> FALSE]
    ELSE IF cap < length_words(q[a + 1])
    THEN [q |-> q, any_change |-> any_change, abort |-> TRUE]
    ELSE LET m == merge(q[a + 1], q[j + 1], cap - length_words(q[a + 1]))
         IN  pack_scan([q EXCEPT ![a + 1] = m.self, ![j + 1] = m.other],
                       a, j + 1, cap, any_change \/ m.did)

\* pack without the pruning of empty packets
retain_all(q) == q

\* feedback.retain(|f| !f.is_empty())
retain(q) == SelectSeq(q, LAMBDA f : ~is_empty(f))

\* A pass that retries the anchor whether or not the inner scan moved an item
pack_step_retrying(ps, checks) ==
    IF Len(ps.q) = 0 THEN [ps EXCEPT !.st = "panic"]
    ELSE IF ps.i = Len(ps.q) - 1 THEN [ps EXCEPT !.st = "prune"]
    ELSE LET s == pack_scan(ps.q, ps.i, ps.i + 1, ps.cap, FALSE)
         IN  IF s.abort THEN [ps EXCEPT !.q = s.q, !.st = "prune"]
             ELSE [ps EXCEPT !.q = s.q]

\* One pass of the 'outer loop on the pack state [q, i, cap, st]:
\* st is "loop", "prune" (the loop was left) or "panic".
pack_step(ps, checks) ==
    IF Len(ps.q) = 0
    THEN \* len - 1 overflows, or wraps and feedback[0] is out of bounds
         [ps EXCEPT !.st = "panic"]
    ELSE IF ps.i = Len(ps.q) - 1 THEN [ps EXCEPT !.st = "prune"]
    ELSE LET s == pack_scan(ps.q, ps.i, ps.i + 1, ps.cap, FALSE)
             lw == length_words(s.q[ps.i + 1])
         IN  IF s.abort THEN [ps EXCEPT !.q = s.q, !.st = "prune"]
             ELSE IF s.any_change THEN [ps EXCEPT !.q = s.q]
             ELSE IF ps.cap < lw /\ checks THEN [ps EXCEPT !.st = "panic"]
             ELSE [ps EXCEPT !.q = s.q, !.cap = (ps.cap - lw) % USIZE, !.i = ps.i + 1]

RECURSIVE pack_run(_, _)
pack_run(ps, checks) ==
    IF ps.st # "loop" THEN ps ELSE pack_run(pack_step(ps, checks), checks)

\* pack(feedback, word_capacity) as a whole: the queue it leaves, or the
\* queue at the panic
pack(q, cap, checks) ==
    LET r == pack_run([q |-> q, i |-> 0, cap |-> cap, st |-> "loop"], checks)
    IN  [q |-> IF r.st = "panic" THEN r.q ELSE retain(r.q), ok |-> r.st # "panic"]

----------------------------------------------------------------------------
(* RtcpFb::read_packet: one pass of the loop over the remaining slice b *)

\* buf[idx] and &buf[..to], &buf[from..] are within the slice
in_bounds(b, idx) == 0 <= idx /\ idx < Len(b)
slice_ok(b, at) == 0 <= at /\ at <= Len(b)

has_padding_bit(byte) == (byte \div 32) % 2 = 1

\* the length field taken as the length in words
full_length_less_one(hd) == hd.words_less_one * 4

\* header.length_words() * 4
full_length_of(hd) == header_length_words(hd) * 4

\* read_packet without the check of full_length against the buffer
length_never_incorrect(full_length, b) == FALSE

\* full_length > buf.len(): this length is incorrect
length_incorrect(full_length, b) == full_length > Len(b)

\* full_length < pad: the padding exceeds the sub-packet
padding_incorrect(full_length, pad) == full_length < pad

\* read_packet going on at the end of the unpadded content
next_start_unpadded(full_length, unpadded_length) == unpadded_length

\* buf = &buf[full_length..]: where the scan goes on, from the start of the
\* sub-packet
next_start(full_length, unpadded_length) == full_length

\* st is "stop" (a break), "panic" (an index out of bounds) or "next"
read_step(b) ==
    IF b = << >> THEN [st |-> "stop", why |-> "empty"]
    ELSE LET hd == header_parse(b) IN
    IF ~hd.ok THEN [st |-> "stop", why |-> "header"]
    ELSE IF ~in_bounds(b, 0) THEN [st |-> "panic", why |-> "buf[0]"]
    ELSE LET has_padding == has_padding_bit(b[1])
             full_length == full_length_of(hd)
         IN
    IF length_incorrect(full_length, b) THEN [st |-> "stop", why |-> "length"]
    ELSE IF has_padding /\ ~in_bounds(b, full_length - 1)
    THEN [st |-> "panic", why |-> "buf[full_length - 1]"]
    ELSE LET pad == IF has_padding THEN b[full_length] ELSE 0 IN
    IF has_padding /\ padding_incorrect(full_length, pad)
    THEN [st |-> "stop", why |-> "padding"]
    ELSE LET unpadded_length == full_length - pad IN
    IF ~slice_ok(b, unpadded_length)
    THEN [st |-> "panic", why |-> "buf[..unpadded_length]"]
    ELSE IF ~slice_ok(b, full_length)
    THEN [st |-> "panic", why |-> "buf[full_length..]"]
    ELSE [st |-> "next", why |-> "", full_length |-> full_length,
          unpadded_length |-> unpadded_length,
          next |-> next_start(full_length, unpadded_length),
          dec |-> try_from(SliceTo(b, unpadded_length))]

RECURSIVE read_run(_, _)
read_run(b, acc) ==
    LET r == read_step(b) IN
    IF r.st # "next" THEN acc
    ELSE read_run(SliceFrom(b, r.next),
                  IF r.dec.ok THEN Append(acc, r.dec.fb) ELSE acc)

\* read_packet(buf) as a whole
read_packet(b) == read_run(b, << >>)

----------------------------------------------------------------------------
(* RtcpFb::write_packet: the padding of the compound packet *)

set_padding_bit(byte) == IF has_padding_bit(byte) THEN byte ELSE byte + 32

\* pad as u8
pad_byte(pad) == pad % U8

\* pad as u16 / 4
pad_words(pad) == (pad % U16) \div 4

\* write_packet without padding
needs_padding_never(off, p, pad) == FALSE

\* padding is needed to fill up to pad_to
needs_padding(off, p, pad) == off > 0 /\ p > 1 /\ pad < p

\* The buffer and offset after the padding step; st is "done" or "panic".
write_pad(b, n, off, off_prev, p, checks) ==
    LET pad == p - (off % p) IN
    IF ~needs_padding(off, p, pad) THEN [buf |-> b, offset |-> off, st |-> "done"]
    ELSE IF off + pad > n THEN [buf |-> b, offset |-> off, st |-> "panic"]
    ELSE LET zeroed == put(b, off, Fill(pad, 0))
             end == off + pad
             counted == put(zeroed, end - 1, << pad_byte(pad) >>)
             words_less_one == FromBE16(counted, off_prev + 3) + pad_words(pad)
         IN  IF words_less_one >= U16 /\ checks
             THEN [buf |-> counted, offset |-> end, st |-> "panic"]
             ELSE LET patched == put(counted, off_prev + 2, BE16(words_less_one % U16))
                  IN  [buf |-> put(patched, off_prev, << set_padding_bit(patched[off_prev + 1]) >>),
                       offset |-> end, st |-> "done"]

\* total_len: buf.len() shrunk to the pad_to boundary
usable_len(n, p) == n - (n % p)

\* write_packet's loop with a test that also turns away an item that fits exactly
does_not_fit_exactly(capacity, item_len) == capacity <= item_len

\* capacity < item_len: the next item does not fit the capacity left
does_not_fit(capacity, item_len) == capacity < item_len

----------------------------------------------------------------------------
(* The caller's inputs *)

\* ample word capacity
AMPLE == 350

Shape(kind, ws) == [kind |-> kind, ws |-> ws]
RRn(n) == Shape("RR", [k \in 1..n |-> 6])
SR1 == Shape("SR", << 6 >>)

Shapes == { SR1, RRn(0), RRn(1), Shape("BYE", << 1 >>), Shape("SDES", << 3, 2 >>) }

\* The packets of a sequence of shapes, every item and sender with its own id
RECURSIVE Build(_, _)
Build(shapes, next) ==
    IF shapes = << >> THEN << >>
    ELSE LET sh == Head(shapes)
         IN  << [kind |-> sh.kind,
                 ssrc |-> IF sh.kind = "SR" THEN Ssrc(next) ELSE NoSsrc,
                 reports |-> [k \in 1..Len(sh.ws) |-> [id |-> Ssrc(next + k), ws |-> sh.ws[k]]]] >>
             \o Build(Tail(shapes), next + 1 + Len(sh.ws))

MixedQueues == { Build(sq, 1) : sq \in UNION { [1..n -> Shapes] : n \in 0..MaxQueue } }
RRQueues == { Build([k \in 1..n |-> RRn(1)], 1) : n \in 1..MaxRR }
SRRRQueues == { Build(<< SR1 >> \o [k \in 1..n |-> RRn(1)], 1) : n \in 1..(MaxRR - 1) }
FullQueues == { Build(<< RRn(n), RRn(2), RRn(1) >>, 1) : n \in {MAX_REPORTS - 1, MAX_REPORTS} }
\* three source descriptions of one chunk each, the chunks of 2 or 3 words
SdesQueues ==
    { Build(<< Shape("SDES", << a >>), Shape("SDES", << b >>), Shape("SDES", << c >>) >>, 1) :
        a \in {2, 3}, b \in {2, 3}, c \in {2, 3} }

Queues == MixedQueues \cup RRQueues \cup SRRRQueues \cup FullQueues \cup SdesQueues

RECURSIVE queue_words(_)
queue_words(q) == IF q = << >> THEN 0 ELSE length_words(Head(q)) + queue_words(Tail(q))

first_words(q) == IF q = << >> THEN 0 ELSE length_words(Head(q))
merged_words(q) == IF q = << >> THEN 0 ELSE queue_words(q) - (Len(q) - 1)

PackCaps(q) ==
    { c \in { 0, first_words(q) - 1, first_words(q), first_words(q) + 2, merged_words(q),
               queue_words(q), AMPLE } :
        c >= 0 }

\* a pad_to that makes the padding of one Goodbye of one SSRC 2^16 bytes
HugePadTo == U16 + 8

WriteArgs(q) ==
    { << 4 * first_words(q), 4 >>, << 4 * first_words(q) + 8, 4 >>, << 4 * merged_words(q), 4 >>,
      << 4 * queue_words(q) + 5, 16 >>, << 300, 288 >>, << 300, 0 >>, << 300, 6 >> }
    \cup (IF q = Build(<< Shape("BYE", << 1 >>) >>, 1) THEN { << HugePadTo + 4, HugePadTo >> } ELSE {})

\* Words an arbitrary input buffer is made of: headers (Goodbye with no and
\* one SSRC, padded ones of 2 and 3 words, application-defined, version 1,
\* a padded Goodbye of 2 words that counts one SSRC) and payload or padding
\* words
InputWords ==
    { << 128, 203, 0, 0 >>, << 129, 203, 0, 1 >>, << 161, 203, 0, 2 >>, << 128, 204, 0, 0 >>,
      << 64, 203, 0, 0 >>, << 160, 203, 0, 1 >>, << 0, 0, 0, 4 >>, << 0, 0, 0, 255 >>,
      << 161, 203, 0, 1 >> }

RECURSIVE Flatten(_)
Flatten(ws) == IF ws = << >> THEN << >> ELSE Head(ws) \o Flatten(Tail(ws))

Inputs ==
    { SliceTo(Flatten(ws), Len(ws) * 4 - cut) :
        ws \in UNION { [1..n -> InputWords] : n \in 1..MaxWords }, cut \in {0, 2} }

----------------------------------------------------------------------------
(* The state machine *)

Init ==
    /\ overflow_checks \in BOOLEAN
    /\ feedback \in Queues
    /\ buf = << >>
    /\ buf_len = 0
    /\ pad_to = 4
    /\ pc = "idle"
    /\ op = "none"
    /\ i = 0
    /\ word_capacity = 0
    /\ total_len = 0
    /\ offset = 0
    /\ offset_prev = 0
    /\ rbuf = << >>
    /\ parsed = << >>
    /\ ret = 0
    /\ h = [calls |-> 0, n |-> 0, p |-> 4, cap |-> 0, q0 |-> << >>, qpacked |-> << >>,
            written |-> << >>, ser |-> << >>, input |-> << >>, iters |-> 0,
            last |-> "", why |-> "", rt |-> FALSE]

\* the history of a call that starts on queue q
Started(q) ==
    [h EXCEPT !.calls = h.calls + 1, !.q0 = q, !.qpacked = << >>, !.written = << >>,
              !.ser = << >>, !.input = << >>, !.iters = 0, !.last = "", !.why = "",
              !.rt = FALSE]

\* The caller calls pack(feedback, cap): a first call with any capacity, a
\* later call with the capacity of the call before.
CallPack ==
    /\ pc = "idle" /\ h.calls < MaxCalls
    /\ \E cap \in (IF h.calls = 0 THEN PackCaps(feedback) ELSE {h.cap}) :
          /\ op' = "pack"
          /\ pc' = "pack"
          /\ i' = 0
          /\ word_capacity' = cap
          /\ h' = IF h.calls = 0
                  THEN [Started(feedback) EXCEPT !.cap = cap, !.n = 4 * cap, !.p = 4]
                  ELSE Started(feedback)
    /\ UNCHANGED << overflow_checks, feedback, buf, buf_len, pad_to, total_len, offset, offset_prev,
                    rbuf, parsed, ret >>

\* The caller calls write_packet(feedback, buf, pad_to) with a fresh buffer:
\* the two assertions, total_len, word_capacity and the entry of pack.
CallWrite ==
    /\ pc = "idle" /\ h.calls < MaxCalls
    /\ \E a \in (IF h.calls = 0 THEN WriteArgs(feedback) ELSE {<< h.n, h.p >>}) :
          /\ buf' = << >>
          /\ buf_len' = a[1]
          /\ pad_to' = a[2]
          /\ op' = "write"
          /\ i' = 0
          /\ offset' = 0
          /\ offset_prev' = 0
          /\ IF a[2] > 0 /\ a[2] % 4 = 0
             THEN /\ pc' = "pack"
                  /\ total_len' = usable_len(a[1], a[2])
                  /\ word_capacity' = usable_len(a[1], a[2]) \div 4
                  /\ h' = IF h.calls = 0
                          THEN [Started(feedback) EXCEPT
                                   !.n = a[1], !.p = a[2],
                                   !.cap = usable_len(a[1], a[2]) \div 4]
                          ELSE Started(feedback)
             ELSE /\ pc' = "panic"
                  /\ h' = [Started(feedback) EXCEPT !.why = "pad_to", !.n = a[1], !.p = a[2]]
                  /\ UNCHANGED << total_len, word_capacity >>
    /\ UNCHANGED << overflow_checks, feedback, rbuf, parsed, ret >>

\* One pass of the 'outer loop of pack
PackOuter ==
    /\ pc = "pack"
    /\ LET ps == pack_step([q |-> feedback, i |-> i, cap |-> word_capacity, st |-> "loop"],
                           overflow_checks)
       IN  /\ feedback' = ps.q
           /\ i' = ps.i
           /\ word_capacity' = ps.cap
           /\ pc' = IF ps.st = "loop" THEN "pack" ELSE ps.st
           /\ h' = IF ps.st = "panic" THEN [h EXCEPT !.why = "pack"] ELSE h
    /\ UNCHANGED << overflow_checks, buf, buf_len, pad_to, op, total_len, offset, offset_prev,
                    rbuf, parsed, ret >>

\* pack: prune empty, and return
PackPrune ==
    /\ pc = "prune"
    /\ feedback' = retain(feedback)
    /\ pc' = IF op = "write" THEN "w_loop" ELSE "done"
    /\ h' = [h EXCEPT !.qpacked = retain(feedback)]
    /\ UNCHANGED << overflow_checks, buf, buf_len, pad_to, op, i, word_capacity, total_len, offset,
                    offset_prev, rbuf, parsed, ret >>

\* One pass of `while let Some(fb) = feedback.front()`
WriteLoop ==
    /\ pc = "w_loop"
    /\ IF feedback = << >> \/ does_not_fit(total_len - offset, length_words(Head(feedback)) * 4)
       THEN /\ pc' = "w_pad"
            /\ h' = [h EXCEPT !.ser = buf]
            /\ UNCHANGED << feedback, buf, offset, offset_prev >>
       ELSE LET fb == Head(feedback)
                item_len == length_words(fb) * 4
                bytes == write_to(fb)
            IN  /\ feedback' = Tail(feedback)
                /\ IF Len(bytes) > buf_len - offset \/ Len(bytes) # item_len
                   THEN /\ pc' = "panic"
                        /\ h' = [h EXCEPT !.why = "write_to"]
                        /\ UNCHANGED << buf, offset, offset_prev >>
                   ELSE /\ buf' = put(buf, offset, bytes)
                        /\ offset_prev' = offset
                        /\ offset' = offset + item_len
                        /\ pc' = "w_loop"
                        /\ h' = [h EXCEPT !.written =
                                    Append(@, [off |-> offset, len |-> item_len, fb |-> fb])]
    /\ UNCHANGED << overflow_checks, buf_len, pad_to, op, i, word_capacity, total_len, rbuf,
                    parsed, ret >>

\* The padding, and the return of offset
WritePad ==
    /\ pc = "w_pad"
    /\ LET r == write_pad(buf, buf_len, offset, offset_prev, pad_to, overflow_checks)
       IN  /\ buf' = r.buf
           /\ offset' = r.offset
           /\ pc' = r.st
           /\ ret' = IF r.st = "done" THEN r.offset ELSE ret
           /\ h' = IF r.st = "panic" THEN [h EXCEPT !.why = "padding"] ELSE h
    /\ UNCHANGED << overflow_checks, feedback, buf_len, pad_to, op, i, word_capacity,
                    total_len, offset_prev, rbuf, parsed >>

\* The caller calls read_packet on an arbitrary input buffer
CallRead ==
    /\ pc = "idle" /\ h.calls = 0 /\ feedback = << >>
    /\ \E input \in Inputs :
          /\ rbuf' = input
          /\ h' = [Started(feedback) EXCEPT !.input = input]
    /\ parsed' = << >>
    /\ op' = "read"
    /\ pc' = "r_loop"
    /\ UNCHANGED << overflow_checks, feedback, buf, buf_len, pad_to, i, word_capacity, total_len,
                    offset, offset_prev, ret >>

\* The caller truncates the buffer write_packet filled to the length it
\* returned and calls read_packet on it
CallReadWritten ==
    /\ pc = "done" /\ op = "write"
    /\ rbuf' = truncate(buf, ret)
    /\ h' = [h EXCEPT !.input = truncate(buf, ret), !.iters = 0, !.last = "", !.rt = TRUE]
    /\ parsed' = << >>
    /\ op' = "read"
    /\ pc' = "r_loop"
    /\ UNCHANGED << overflow_checks, feedback, buf, buf_len, pad_to, i, word_capacity, total_len,
                    offset, offset_prev, ret >>

\* One pass of the loop of read_packet
ReadLoop ==
    /\ pc = "r_loop"
    /\ LET r == read_step(rbuf)
       IN  IF r.st = "next"
           THEN /\ parsed' = IF r.dec.ok THEN Append(parsed, r.dec.fb) ELSE parsed
                /\ rbuf' = SliceFrom(rbuf, r.next)
                /\ pc' = "r_loop"
                /\ h' = [h EXCEPT !.iters = @ + 1,
                                  !.last = IF r.dec.ok THEN "decoded" ELSE "dropped"]
           ELSE /\ pc' = IF r.st = "panic" THEN "panic" ELSE "done"
                /\ h' = [h EXCEPT !.last = r.why,
                                  !.why = IF r.st = "panic" THEN r.why ELSE @]
                /\ UNCHANGED << parsed, rbuf >>
    /\ UNCHANGED << overflow_checks, feedback, buf, buf_len, pad_to, op, i, word_capacity, total_len,
                    offset, offset_prev, ret >>

\* The call returned; the caller goes on with the queue as the call left it
Return ==
    /\ pc = "done" /\ op \in {"pack", "write"} /\ h.calls < MaxCalls
    /\ pc' = "idle"
    /\ UNCHANGED << overflow_checks, feedback, buf, buf_len, pad_to, op, i, word_capacity, total_len,
                    offset, offset_prev, rbuf, parsed, ret, h >>

Next ==
    \/ CallPack
    \/ CallWrite
    \/ PackOuter
    \/ PackPrune
    \/ WriteLoop
    \/ WritePad
    \/ CallRead
    \/ CallReadWritten
    \/ ReadLoop
    \/ Return

Spec == Init /\ [][Next]_vars

----------------------------------------------------------------------------
(* Properties *)

\* the pad_to of the running write_packet satisfies its two assertions
ValidPadTo == h.p > 0 /\ h.p % 4 = 0

\* bytes of the sub-packets the running write_packet wrote, padding excluded
RECURSIVE written_len(_)
written_len(w) == IF w = << >> THEN 0 ELSE Head(w).len + written_len(Tail(w))

written_packets(w) == [k \in 1..Len(w) |-> w[k].fb]

\* C1: write_packet never fails outright: for every queue, the empty one
\* included, every buffer and every pad_to that is a positive multiple of 4
\* the call completes normally, returns the number of bytes written and
\* leaves the entries it did not write in the queue.
C1_WriteNeverFails ==
    (op = "write" /\ ValidPadTo) =>
        /\ pc # "panic"
        /\ pc = "done" =>
              /\ ret >= written_len(h.written)
              /\ written_packets(h.written) \o feedback = h.qpacked

\* C2: read_packet never fails outright on untrusted input: for every byte
\* sequence it never indexes outside the input buffer (the header byte, the
\* pad-count byte at full_length - 1, the slices [..unpadded_length] and
\* [full_length..]) and returns the sub-packets decoded so far.
C2_ReadNeverFails ==
    op = "read" =>
        /\ pc # "panic"
        /\ Len(rbuf) <= Len(h.input)
        /\ rbuf = SliceFrom(h.input, Len(h.input) - Len(rbuf))
        /\ Len(parsed) <= h.iters

\* C2 witness: a scan of an arbitrary input met a padded sub-packet whose pad
\* count exceeds it, after it had passed a sub-packet
C2_Witness ==
    op = "read" /\ ~h.rt /\ pc = "done" /\ h.last = "padding" /\ h.iters >= 1

\* a non-empty queue that fits the buffer of the write_packet call as it is
FitsBuffer(q) == q # << >> /\ 4 * queue_words(q) <= usable_len(h.n, h.p)

\* C3: round trip: for every non-empty queue of valid packets that fits the
\* buffer, read_packet applied to the bytes write_packet produced (truncated
\* to the returned length) yields the queue pack makes of the original.
C3_RoundTrip ==
    (op = "read" /\ h.rt /\ pc = "done" /\ FitsBuffer(h.q0)) =>
        parsed = pack(h.q0, AMPLE, overflow_checks).q

\* capacity of the running pack is below the length of the first packet
TooSmallForFirst == h.q0 # << >> /\ h.cap < first_words(h.q0)

\* no packet of q is empty, so pack's pruning has nothing to remove at entry
NoneEmpty(q) == \A k \in 1..Len(q) : ~is_empty(q[k])

\* C4: pack with a word capacity smaller than the length_words of the first
\* packet leaves the queue unmodified: same packets, same order, same lists.
\* Stated for the queues that hold no empty packet when pack is entered.
C4_PackTooSmallUnmodified ==
    (op = "pack" /\ TooSmallForFirst /\ NoneEmpty(h.q0)) =>
        /\ pc # "panic"
        /\ pc = "done" => feedback = h.q0

\* a queue of receiver reports that hold one report each
SingleRRs(q) == \A k \in 1..Len(q) : q[k].kind = "RR" /\ Len(q[k].reports) = 1

\* the reports of the packets of q, in queue order
RECURSIVE all_reports(_)
all_reports(q) == IF q = << >> THEN << >> ELSE Head(q).reports \o all_reports(Tail(q))

AmpleCapacity == h.cap >= queue_words(h.q0)

\* C5 as stated: pack of N single-report receiver reports with ample capacity
\* yields one receiver report with the N reports in queue order.
C5_PackRRs_Original ==
    (op = "pack" /\ pc = "done" /\ h.q0 # << >> /\ SingleRRs(h.q0) /\ AmpleCapacity) =>
        feedback = << [kind |-> "RR", ssrc |-> NoSsrc, reports |-> all_reports(h.q0)] >>

\* C5 amended: the same for 1 <= N <= 31, the cap of a report list.
C5_PackRRs ==
    (op = "pack" /\ pc = "done" /\ h.q0 # << >> /\ SingleRRs(h.q0) /\ AmpleCapacity
        /\ Len(h.q0) <= MAX_REPORTS) =>
        feedback = << [kind |-> "RR", ssrc |-> NoSsrc, reports |-> all_reports(h.q0)] >>

\* C5 witness: four single-report receiver reports were packed with 350 words
C5_Witness ==
    op = "pack" /\ pc = "done" /\ SingleRRs(h.q0) /\ Len(h.q0) = 4 /\ h.cap = AMPLE
        /\ Len(feedback) = 1 /\ Len(feedback[1].reports) = 4

\* one sender report holding one report, then single-report receiver reports
SRThenRRs(q) ==
    /\ Len(q) >= 2
    /\ q[1].kind = "SR" /\ Len(q[1].reports) = 1
    /\ SingleRRs(Tail(q))

PadAdded == ret - written_len(h.written)

\* C7: when write_packet adds padding it is applied to exactly one
\* sub-packet, the last one written: only its padding bit is set and only its
\* length field is increased, by pad / 4; every byte before it is left as
\* serialized.  When nothing was written nothing is padded or patched.
C7_PaddingOnLastOnly ==
    (op = "write" /\ pc = "done") =>
        IF h.written = << >> \/ PadAdded = 0
        THEN buf = h.ser /\ PadAdded = 0
        ELSE LET last == h.written[Len(h.written)]
                 was == SubSeq(h.ser, last.off + 1, last.off + last.len)
                 now == SubSeq(buf, last.off + 1, last.off + last.len)
             IN  /\ SubSeq(buf, 1, last.off) = SubSeq(h.ser, 1, last.off)
                 /\ \A k \in 1..(Len(h.written) - 1) :
                       (buf[h.written[k].off + 1] \div 32) % 2 = 0
                 /\ (was[1] \div 32) % 2 = 0
                 /\ now[1] = was[1] + 32
                 /\ now[2] = was[2]
                 /\ now[3] * 256 + now[4] = was[3] * 256 + was[4] + PadAdded \div 4
                 /\ SubSeq(now, 5, Len(now)) = SubSeq(was, 5, Len(was))

\* C8: the byte count write_packet returns (padding included) is at most
\* len(buf) rounded down to a multiple of pad_to, is a multiple of pad_to,
\* and no byte of buf at or beyond it is written; while the call runs no
\* byte at or beyond offset is written.
C8_WithinBudget ==
    (op = "write" /\ pc \in {"w_loop", "w_pad", "done"}) =>
        LET used == IF pc = "done" THEN ret ELSE offset IN
        /\ buf_len = h.n
        /\ used <= h.n - (h.n % h.p)
        /\ pc = "done" => ret % h.p = 0
        /\ Len(buf) <= used

\* C8 witness: a call that wrote sub-packets, padded them and left the rest
\* of a longer buffer alone
C8_Witness ==
    op = "write" /\ pc = "done" /\ PadAdded > 0 /\ Len(h.written) >= 2 /\ ret < buf_len

\* C9: after any sequence of pack and write_packet calls on a queue whose
\* report lists start with at most 31 items, every report list of the queue
\* has at most 31 items.
C9_ListsAtMost31 ==
    \A k \in 1..Len(feedback) : Len(feedback[k].reports) <= 31

\* C9 witness: a second pack call ended on a queue whose first list was
\* filled up to 31 items with one report left over
C9_Witness ==
    /\ op = "pack" /\ pc = "done" /\ h.calls = 2 /\ Len(feedback) = 2
    /\ Len(feedback[1].reports) = 31 /\ Len(feedback[2].reports) = 1

\* C10: read_packet ends within len(buf) / 4 passes of its loop: every pass
\* that does not stop the scan advances the position by full_length >= 4.
C10_ReadBounded ==
    op = "read" =>
        /\ 4 * h.iters <= Len(h.input) - Len(rbuf)
        /\ h.iters <= Len(h.input) \div 4

\* C10 witness: a scan of an arbitrary input ended after as many passes as
\* the input has words
C10_Witness ==
    op = "read" /\ ~h.rt /\ pc = "done" /\ h.iters = MaxWords /\ Len(h.input) = 4 * MaxWords

----------------------------------------------------------------------------
(* The pack pass in detail *)

\* pack is running: the 'outer loop or the pruning that follows it
Packing == op \in {"pack", "write"} /\ pc \in {"pack", "prune"}

\* the next pass of the 'outer loop charges the anchor: the queue is not at
\* its last index and the inner scan neither aborts nor merges anything
ChargeDue ==
    /\ op \in {"pack", "write"} /\ pc = "pack"
    /\ feedback # << >> /\ i # Len(feedback) - 1
    /\ LET s == pack_scan(feedback, i, i + 1, word_capacity, FALSE)
       IN  ~s.abort /\ ~s.any_change

\* C11: in pack the remaining word capacity never goes below zero: whenever
\* the anchor's size is charged against word_capacity (no merge occurred in
\* the inner scan, the scan skipped for a full or drained anchor included),
\* word_capacity >= anchor.length_words(), for every queue and capacity.
C11_ChargeWithinCapacity ==
    ChargeDue => word_capacity >= length_words(feedback[i + 1])

\* the ids of the report items of a list, and of the packets of q of one kind
ids(l) == { l[k].id : k \in 1..Len(l) }
ids_of_kind(q, kind) ==
    UNION { ids(q[k].reports) : k \in { n \in 1..Len(q) : q[n].kind = kind } }

\* the items of l whose id is in S, in the order of l
kept(l, S) == SelectSeq(l, LAMBDA it : it.id \in S)

\* C12: pack preserves the relative order of surviving report items: for any
\* two report items x and y of the same packet kind, if x comes before y in
\* the queue before pack (earlier packet, or earlier position in one list),
\* x comes before y in the queue after pack, for every queue, every item
\* word sizes and every capacity.
C12_OrderPreserved ==
    (op = "pack" /\ pc = "done") =>
        \A kind \in Kinds :
            LET K == ids_of_kind(h.q0, kind)
                after == kept(all_reports(feedback), K)
            IN  after = kept(all_reports(h.q0), K \cap ids(after))

\* C13: for every pad_to that is a positive multiple of 4, when write_packet
\* adds pad bytes of padding the final byte of the output holds the value pad
\* and the last sub-packet's 16-bit length field equals its unpadded length
\* field plus pad / 4 (no truncation to 8 bits, no wrap modulo 2^16), so
\* that read_packet on the output strips exactly pad bytes and recovers the
\* unpadded content.
C13_PadCountExact ==
    /\ (op = "write" /\ pc = "done" /\ PadAdded > 0) =>
          LET last == h.written[Len(h.written)]
          IN  /\ buf[ret] = PadAdded
              /\ FromBE16(buf, last.off + 3) = FromBE16(h.ser, last.off + 3) + PadAdded \div 4
    /\ (op = "read" /\ h.rt /\ pc = "done" /\ PadAdded > 0) =>
          parsed = written_packets(h.written)

\* the bytes of the output buffer before the padding, from byte off on, len of them
ser_at(off, len) == SubSeq(h.ser, off + 1, off + len)

\* C14: write_packet writes exactly the longest prefix of the packed queue
\* whose cumulative byte size fits the usable budget: packets are written
\* front to back in queue order at contiguous offsets, writing stops at the
\* first packet that does not fit (later smaller packets are not written
\* out of order), and the unwritten packets remain in the queue in their
\* original order.
C14_LongestPrefix ==
    (op = "write" /\ pc \in {"w_pad", "done"}) =>
        /\ written_packets(h.written) \o feedback = h.qpacked
        /\ \A k \in 1..Len(h.written) :
              /\ h.written[k].off = written_len(SubSeq(h.written, 1, k - 1))
              /\ h.written[k].len = 4 * length_words(h.written[k].fb)
              /\ ser_at(h.written[k].off, h.written[k].len) = write_to(h.written[k].fb)
        /\ Len(h.ser) = written_len(h.written)
        /\ written_len(h.written) <= usable_len(h.n, h.p)
        /\ feedback # << >> =>
              written_len(h.written) + 4 * length_words(Head(feedback)) > usable_len(h.n, h.p)

\* C14 witness: a call wrote a packet, stopped at one that did not fit and
\* left behind it a smaller one that the rest of the budget would have held
C14_Witness ==
    /\ op = "write" /\ pc = "done" /\ Len(h.written) >= 1 /\ Len(feedback) >= 2
    /\ written_len(h.written) + 4 * length_words(feedback[2]) <= usable_len(h.n, h.p)

\* the index in q of the packet that holds the item id
origin(q, id) == CHOOSE k \in 1..Len(q) : id \in ids(q[k].reports)

\* the packet at index k of the running pack holds an item of another packet
Absorbed(k) == \E m \in 1..Len(feedback[k].reports) : origin(h.q0, feedback[k].reports[m].id) # k

\* fb holds items of two packets of the queue the call started on
Grown(fb) ==
    \E m, n \in 1..Len(fb.reports) :
        origin(h.q0, fb.reports[m].id) # origin(h.q0, fb.reports[n].id)

\* C15: merging respects the word budget: whenever pack moves report items
\* into the anchor queue[i], afterwards the total length_words of
\* queue[0..=i] does not exceed the word capacity pack was called with;
\* hence in write_packet every packet that absorbed items during the pack
\* step is written in that same call.
C15_MergeWithinBudget ==
    /\ Packing =>
          \A k \in 1..Len(feedback) :
              Absorbed(k) => queue_words(SubSeq(feedback, 1, k)) <= h.cap
    /\ (op = "write" /\ pc \in {"w_pad", "done"}) =>
          \A k \in 1..Len(feedback) : ~Grown(feedback[k])

\* the report items of the packets of q, as a set
items(q) == { all_reports(q)[k] : k \in 1..Len(all_reports(q)) }

\* q2 holds the report items of q, each once (the items of a queue the
\* caller builds are distinct)
SameItems(q, q2) == Len(all_reports(q2)) = Len(all_reports(q)) /\ items(q2) = items(q)

\* q2 has the packets of q but for their report lists
SamePackets(q, q2) ==
    /\ Len(q2) = Len(q)
    /\ \A k \in 1..Len(q) : q2[k].kind = q[k].kind /\ q2[k].ssrc = q[k].ssrc

\* C16: pack neither loses nor duplicates report items: the multiset of
\* report items held by all packets of the queue after pack equals the one
\* before, every sender report (with its sender info) present before pack
\* is still present after, and only packets whose report list is empty are
\* removed.  Step by step: a pass of the loop keeps every packet and every
\* item; the pruning removes exactly the packets, other than sender
\* reports, whose list is empty.
C16_NoLossNoDup ==
    [][Packing =>
          IF pc = "pack"
          THEN SamePackets(feedback, feedback') /\ SameItems(feedback, feedback')
          ELSE feedback' = SelectSeq(feedback, LAMBDA f : f.kind = "SR" \/ f.reports # << >>)]_vars

\* C16 witness: a pack that removed drained packets and left a sender report
\* holding reports of others, with every item of the original queue present
C16_Witness ==
    /\ op = "pack" /\ pc = "done" /\ Len(feedback) < Len(h.q0)
    /\ \E k \in 1..Len(feedback) : feedback[k].kind = "SR" /\ Grown(feedback[k])
    /\ SameItems(h.q0, feedback)

\* report items held by the packets after the anchor
RECURSIVE items_after(_, _)
items_after(q, a) ==
    IF a + 1 >= Len(q) THEN 0
    ELSE Len(q[Len(q)].reports) + items_after(SubSeq(q, 1, Len(q) - 1), a)

\* the pack state the next pass of the 'outer loop leaves
next_pass ==
    pack_step([q |-> feedback, i |-> i, cap |-> word_capacity, st |-> "loop"], overflow_checks)

\* C17: pack terminates for every queue and every word capacity: the anchor
\* is retried only after an inner scan that moved at least one item into it
\* (so the retries of one anchor are bounded by the items available), and
\* otherwise the anchor index advances until it reaches the last index.
\* As a decreasing measure: the next pass leaves the loop, or advances the
\* anchor, which stays below the length of the queue, or keeps the anchor
\* and takes at least one item from the packets after it.
C17_PackTerminates ==
    (Packing /\ pc = "pack") =>
        \/ next_pass.st # "loop"
        \/ /\ Len(next_pass.q) = Len(feedback)
           /\ \/ next_pass.i = i + 1 /\ next_pass.i <= Len(feedback) - 1
              \/ next_pass.i = i /\ items_after(next_pass.q, i) < items_after(feedback, i)

\* C17 witness: a pack of four or more packets left its loop by reaching
\* the last index, after an anchor had absorbed items up to three or more
C17_Witness ==
    /\ op = "pack" /\ pc = "prune" /\ i = Len(feedback) - 1 /\ Len(feedback) >= 4
    /\ \E k \in 1..Len(feedback) : Absorbed(k) /\ Len(feedback[k].reports) >= 3

\* every packet of q on its own fits the usable budget of the running call
EachFits(q) == \A k \in 1..Len(q) : 4 * length_words(q[k]) <= usable_len(h.n, h.p)

\* C18: progress across calls: if every packet in the queue individually
\* fits the usable budget of the buffer (len(buf) rounded down to pad_to),
\* every write_packet call on a non-empty queue writes at least one packet,
\* so that repeated calls with such a buffer eventually empty the queue:
\* the call returns, and leaves fewer packets than it found.
C18_Progress ==
    (op = "write" /\ ValidPadTo /\ h.q0 # << >> /\ EachFits(h.q0)) =>
        /\ pc # "panic"
        /\ pc \in {"w_pad", "done"} => h.written # << >> /\ Len(feedback) < Len(h.q0)

\* the length the header at the start of b gives its sub-packet, in bytes
framed_length(b) == 4 * (FromBE16(b, 3) + 1)

\* a framing error at the start of the non-empty slice b: the header cannot
\* be parsed, full_length exceeds the slice, or the pad count exceeds
\* full_length
FramingError(b) ==
    \/ ~header_parse(b).ok
    \/ framed_length(b) > Len(b)
    \/ has_padding_bit(b[1]) /\ b[framed_length(b)] > framed_length(b)

\* C19: read_packet separates two failure classes: a framing error (header
\* unparsable, full_length greater than the remaining buffer, or pad count
\* greater than full_length) stops the scan and returns exactly the
\* sub-packets accumulated before it; a content error (decode failure or
\* unsupported kind) discards only that sub-packet and the scan continues
\* at offset full_length (not unpadded_length) from that sub-packet's
\* start, so valid sub-packets after it are still returned in order.
C19_FailureClasses ==
    [][(op = "read" /\ pc = "r_loop") =>
          IF rbuf = << >> \/ FramingError(rbuf)
          THEN pc' = "done" /\ parsed' = parsed
          ELSE LET pad == IF has_padding_bit(rbuf[1]) THEN rbuf[framed_length(rbuf)] ELSE 0
                   dec == try_from(SliceTo(rbuf, framed_length(rbuf) - pad))
               IN  /\ pc' = "r_loop"
                   /\ rbuf' = SliceFrom(rbuf, framed_length(rbuf))
                   /\ parsed' = IF dec.ok THEN Append(parsed, dec.fb) ELSE parsed]_vars

\* C19 witness: a scan of an arbitrary input dropped an application-defined
\* sub-packet, decoded the Goodbye after it and stopped at the header after
\* that, returning the Goodbye
C19_Witness ==
    /\ op = "read" /\ ~h.rt /\ pc = "done" /\ h.last = "header" /\ h.iters = 2
    /\ h.input[2] = 204 /\ Len(parsed) = 1 /\ parsed[1].kind = "BYE"

\* the kind pairs << target, source >> of the claim
MergeablePairs ==
    { << "SR", "RR" >>, << "RR", "RR" >>, << "SDES", "SDES" >>, << "BYE", "BYE" >> }

\* C20: pack moves report items only from a later queue entry into an
\* earlier one and only for the kind pairs (target <- source) SenderReport
\* <- ReceiverReport, ReceiverReport <- ReceiverReport, SourceDescription <-
\* SourceDescription, Goodbye <- Goodbye; for every other ordered kind pair
\* both packets' report lists are left unchanged.  While pack runs, every
\* item is in the packet it started in or in an earlier one that pairs with
\* that packet.
C20_ForwardCompatibleOnly ==
    Packing =>
        /\ SamePackets(h.q0, feedback)
        /\ \A k \in 1..Len(feedback) : \A m \in 1..Len(feedback[k].reports) :
              LET o == origin(h.q0, feedback[k].reports[m].id)
              IN  /\ o >= k
                  /\ o > k => << h.q0[k].kind, h.q0[o].kind >> \in MergeablePairs

\* C20 witness: a receiver report took the report of a later receiver report
\* across a sender report, whose list stayed as it was
C20_Witness ==
    /\ op = "pack" /\ pc = "prune" /\ Len(feedback) = 3
    /\ feedback[1].kind = "RR" /\ Absorbed(1)
    /\ feedback[2].kind = "SR" /\ feedback[2] = h.q0[2]
    /\ feedback[3].kind = "RR" /\ feedback[3].reports = << >> /\ h.q0[3].reports # << >>

====
